---- MODULE Spec2Model ----
(***************************************************************************)
(* Model of dagger/main.go: main, testDagger and runPipeline, the four     *)
(* build*Container functions and the four test* functions.                 *)
(*                                                                         *)
(* A *dagger.Container is a lazy pipeline: the build functions only append *)
(* operations to it, and nothing is executed by the engine until a test    *)
(* function calls Stdout(ctx) on it.  The model keeps a container as the   *)
(* sequence of its operations and lets the engine evaluate them in order,  *)
(* one operation per step, the outcome of each chosen by the environment.  *)
(***************************************************************************)
EXTENDS Integers, Sequences, FiniteSets, TLC

VARIABLES
    pc,               \* position of the single goroutine of main
    idx,              \* which build / test statement of runPipeline is next
    openClients,      \* Dagger clients connected and not yet closed
    tdRet,            \* return value of testDagger  ("none" while not returned)
    rpRet,            \* return value of runPipeline ("none" while not returned)
    container,        \* per component: the lazy pipeline its build function returned
    query,            \* the pipeline the running test function evaluates
    evalPos,          \* next operation of query the engine executes
    stdoutErr,        \* the error Stdout(ctx) returned to the running test
    log,              \* what the engine executed: <<component, op, outcome>> in order
    testInvoked,      \* the test functions entered so far, in order
    results,          \* the value each test function returned, in order
    out,              \* lines written to standard output
    exitCode,         \* process exit status, -1 while running
    cancelRequested,  \* an external cancellation was requested
    contexts,         \* schema.js: the stored contexts, in insertion order
    nextId,           \* schema.js: the number the next added context gets as id
    ret               \* schema.js: the last resolver call and what it returned

pipelineVars == <<pc, idx, openClients, tdRet, rpRet, container, query, evalPos,
                  stdoutErr, log, testInvoked, results, out, exitCode, cancelRequested>>

storeVars == <<contexts, nextId, ret>>

vars == <<pipelineVars, storeVars>>

Components == {"microAgent", "mcpServer", "knowledgeGraph", "sessionMemory"}

\* runPipeline lines 56-59: the order the components are declared (built) in
BuildOrder == <<"microAgent", "mcpServer", "knowledgeGraph", "sessionMemory">>

\* a mutation of TestOrder: the MCP server and knowledge graph tests swapped
TestOrderSwapped == <<"microAgent", "knowledgeGraph", "mcpServer", "sessionMemory">>

\* runPipeline lines 62-76: the order the test functions are called in
TestOrder == <<"microAgent", "mcpServer", "knowledgeGraph", "sessionMemory">>

NumComponents == Len(BuildOrder)

\* The operations of each build function that the engine has to execute and
\* that can fail (image pull, package installation).
buildMicroAgentContainer == <<"From", "WithExec">>
buildMCPServerContainer == <<"From", "WithExec", "WithExec">>
buildKnowledgeGraphContainer == <<"From", "WithExec">>
buildSessionMemoryContainer == <<"From">>

\* a mutation of BuildFn: the MCP server is built on top of whatever the
\* micro agent's build has produced so far
BuildFnShared(c) ==
    CASE c = "microAgent" -> buildMicroAgentContainer
      [] c = "mcpServer" -> Append(container["microAgent"], "WithExec")
      [] c = "knowledgeGraph" -> buildKnowledgeGraphContainer
      [] c = "sessionMemory" -> buildSessionMemoryContainer

BuildFn(c) ==
    CASE c = "microAgent" -> buildMicroAgentContainer
      [] c = "mcpServer" -> buildMCPServerContainer
      [] c = "knowledgeGraph" -> buildKnowledgeGraphContainer
      [] c = "sessionMemory" -> buildSessionMemoryContainer

BuildOps == {"From", "WithExec"}
TestOp == "TestExec"

\* a mutation of WithExec: the test command does not depend on the build
WithExecDetached(cont, op) == <<op>>

\* container.WithExec(cmd): a new pipeline, the command after all of cont's operations
WithExec(cont, op) == Append(cont, op)

\* What the environment can make an operation do.  The MCP server is started
\* under `timeout 5`: a server still running after 5 seconds is killed (exit
\* status 124) whether it was serving requests or hung.  No other operation
\* has a time limit (and ctx has no deadline): an image pull, an installation
\* or a test process that never ends never returns.
Outcomes(c, op) ==
    IF op \in BuildOps THEN {"ok", "failed", "never_returns"}
    ELSE IF c = "mcpServer" THEN {"exit0", "nonzero", "timeout_serving", "timeout_hung"}
    ELSE {"exit0", "nonzero", "never_returns"}

Failed(o) == o \notin {"ok", "exit0"}

\* the error Stdout(ctx) returns when an operation ends with outcome o
ErrOf(op, o) ==
    IF ~Failed(o) THEN "nil"
    ELSE IF op \in BuildOps THEN "build_error"
    ELSE IF o = "nonzero" THEN "exit_nonzero"
    ELSE "exit_124"

\* main line 11: ctx is context.Background(), which is never done, whatever
\* was requested from outside
ctxDone(requested) == FALSE

\* ---- the test functions: the error each returns, given Stdout's error ----
testMicroAgent(err) == IF err # "nil" THEN err ELSE "nil"
\* a mutation of testMCPServer: the error is returned as in the other tests
testMCPServerPropagates(err) == IF err # "nil" THEN err ELSE "nil"
testMCPServer(err) == "nil"
testKnowledgeGraph(err) == IF err # "nil" THEN err ELSE "nil"
testSessionMemory(err) == IF err # "nil" THEN err ELSE "nil"

TestFn(c, err) ==
    CASE c = "microAgent" -> testMicroAgent(err)
      [] c = "mcpServer" -> testMCPServer(err)
      [] c = "knowledgeGraph" -> testKnowledgeGraph(err)
      [] c = "sessionMemory" -> testSessionMemory(err)

\* what each test function prints once Stdout has returned
TestPrints(c, err) ==
    IF c = "mcpServer"
    THEN IF err # "nil" THEN << <<"MCP Server started successfully">> >> ELSE << >>
    ELSE IF err = "nil" THEN << <<"Output", c>> >> ELSE << >>

\* The values runPipeline returns: nil, the error of dagger.Connect, or
\* fmt.Errorf("<component> test failed: %w", err) (lines 63, 67, 71, 75).
NotReturned == [kind |-> "none", comp |-> "", err |-> "nil"]
Nil == [kind |-> "nil", comp |-> "", err |-> "nil"]
ConnectError == [kind |-> "connect_error", comp |-> "", err |-> "connect_error"]
TestFailedError(c, e) == [kind |-> "test_failed", comp |-> c, err |-> e]

\* a mutation of runPipelineAfterConnect: the connection error is ignored
runPipelineIgnoreConnectErr(ok) == "rp_build"

\* runPipeline lines 47-50: return err when dagger.Connect failed
runPipelineAfterConnect(ok) == IF ok THEN "rp_build" ELSE "main_rp"

\* a mutation of clientClose: the deferred Close is missing
clientCloseMissing(clients, name) == clients

\* defer client.Close() (lines 31 and 51), run when the function returns
clientClose(clients, name) == clients \ {name}

Init ==
    /\ pc = "td_connect"
    /\ idx = 1
    /\ openClients = {}
    /\ tdRet = "none"
    /\ rpRet = NotReturned
    /\ container = [c \in Components |-> << >>]
    /\ query = << >>
    /\ evalPos = 1
    /\ stdoutErr = "nil"
    /\ log = << >>
    /\ testInvoked = << >>
    /\ results = << >>
    /\ out = << >>
    /\ exitCode = -1
    /\ cancelRequested = FALSE
    /\ contexts = << >>
    /\ nextId = 1
    /\ ret = [op |-> "none", id |-> << >>, result |-> "none"]

\* testDagger lines 27-31
testDagger_Connect ==
    /\ pc = "td_connect"
    /\ \E ok \in BOOLEAN :
         IF ok
         THEN /\ openClients' = openClients \cup {"testDagger"}
              /\ pc' = "td_exec"
              /\ UNCHANGED tdRet
         ELSE /\ tdRet' = "connect_error"
              /\ pc' = "main_td"
              /\ UNCHANGED openClients
    /\ UNCHANGED <<idx, rpRet, container, query, evalPos, stdoutErr, log,
                   testInvoked, results, out, exitCode, cancelRequested>>
    /\ UNCHANGED storeVars

\* testDagger lines 33-43, and the deferred client.Close()
testDagger_Stdout ==
    /\ pc = "td_exec"
    /\ \E ok \in BOOLEAN :
         /\ tdRet' = IF ok THEN "nil" ELSE "exec_error"
         /\ out' = IF ok THEN Append(out, <<"Dagger test passed">>) ELSE out
    /\ openClients' = clientClose(openClients, "testDagger")
    /\ pc' = "main_td"
    /\ UNCHANGED <<idx, rpRet, container, query, evalPos, stdoutErr, log,
                   testInvoked, results, exitCode, cancelRequested>>
    /\ UNCHANGED storeVars

\* main lines 14-17
main_AfterTestDagger ==
    /\ pc = "main_td"
    /\ IF tdRet # "nil"
       THEN /\ out' = Append(out, <<"Error", tdRet>>)
            /\ exitCode' = 1
            /\ pc' = "exited"
       ELSE /\ pc' = "rp_connect"
            /\ UNCHANGED <<out, exitCode>>
    /\ UNCHANGED <<idx, openClients, tdRet, rpRet, container, query, evalPos,
                   stdoutErr, log, testInvoked, results, cancelRequested>>
    /\ UNCHANGED storeVars

\* runPipeline lines 47-53
runPipeline_Connect ==
    /\ pc = "rp_connect"
    /\ \E ok \in BOOLEAN :
         /\ pc' = runPipelineAfterConnect(ok)
         /\ IF ok
            THEN /\ openClients' = openClients \cup {"runPipeline"}
                 /\ out' = Append(out, <<"Starting Pipeline">>)
                 /\ UNCHANGED rpRet
            ELSE /\ rpRet' = ConnectError
                 /\ UNCHANGED <<openClients, out>>
    /\ idx' = 1
    /\ UNCHANGED <<tdRet, container, query, evalPos, stdoutErr, log,
                   testInvoked, results, exitCode, cancelRequested>>
    /\ UNCHANGED storeVars

\* runPipeline lines 56-59: one build function call; it prints and returns the
\* lazy pipeline, no error
runPipeline_Build ==
    /\ pc = "rp_build"
    /\ LET c == BuildOrder[idx] IN
         /\ container' = [container EXCEPT ![c] = BuildFn(c)]
         /\ out' = Append(out, <<"Building", c>>)
    /\ IF idx < NumComponents
       THEN /\ idx' = idx + 1
            /\ UNCHANGED pc
       ELSE /\ idx' = 1
            /\ pc' = "rp_test"
    /\ UNCHANGED <<openClients, tdRet, rpRet, query, evalPos, stdoutErr, log,
                   testInvoked, results, exitCode, cancelRequested>>
    /\ UNCHANGED storeVars

\* a test function is entered: it prints and builds its query from the
\* component's container (lines 453-456, 467-471, 482-485, 496-499)
test_Begin ==
    /\ pc = "rp_test"
    /\ LET c == TestOrder[idx] IN
         /\ testInvoked' = Append(testInvoked, c)
         /\ out' = Append(out, <<"Testing", c>>)
         /\ query' = WithExec(container[c], TestOp)
    /\ evalPos' = 1
    /\ pc' = "rp_stdout"
    /\ UNCHANGED <<idx, openClients, tdRet, rpRet, container, stdoutErr, log,
                   results, exitCode, cancelRequested>>
    /\ UNCHANGED storeVars

\* Stdout(ctx): the engine executes the next operation of the query; the
\* first failing operation ends the evaluation with its error, and an
\* operation that never returns leaves Stdout, and so main, blocked
Stdout_Step ==
    /\ pc = "rp_stdout"
    /\ LET c == TestOrder[idx]
           op == query[evalPos]
       IN IF ctxDone(cancelRequested)
          THEN /\ stdoutErr' = "context_canceled"
               /\ pc' = "rp_test_ret"
               /\ UNCHANGED <<log, evalPos>>
          ELSE \E o \in Outcomes(c, op) :
                 /\ log' = Append(log, <<c, op, o>>)
                 /\ IF o = "never_returns"
                    THEN /\ pc' = "rp_blocked"
                         /\ UNCHANGED <<stdoutErr, evalPos>>
                    ELSE IF Failed(o) \/ evalPos = Len(query)
                    THEN /\ stdoutErr' = ErrOf(op, o)
                         /\ pc' = "rp_test_ret"
                         /\ UNCHANGED evalPos
                    ELSE /\ evalPos' = evalPos + 1
                         /\ UNCHANGED <<stdoutErr, pc>>
    /\ UNCHANGED <<idx, openClients, tdRet, rpRet, container, query,
                   testInvoked, results, out, exitCode, cancelRequested>>
    /\ UNCHANGED storeVars

\* the test function returns and runPipeline checks its error (lines 62-79);
\* returning from runPipeline runs the deferred client.Close()
test_Return ==
    /\ pc = "rp_test_ret"
    /\ LET c == TestOrder[idx]
           r == TestFn(c, stdoutErr)
       IN /\ results' = Append(results, [name |-> c, err |-> r])
          /\ IF r # "nil"
             THEN /\ rpRet' = TestFailedError(c, r)
                  /\ openClients' = clientClose(openClients, "runPipeline")
                  /\ out' = out \o TestPrints(c, stdoutErr)
                  /\ pc' = "main_rp"
                  /\ UNCHANGED idx
             ELSE IF idx < NumComponents
             THEN /\ idx' = idx + 1
                  /\ out' = out \o TestPrints(c, stdoutErr)
                  /\ pc' = "rp_test"
                  /\ UNCHANGED <<rpRet, openClients>>
             ELSE /\ rpRet' = Nil
                  /\ openClients' = clientClose(openClients, "runPipeline")
                  /\ out' = (out \o TestPrints(c, stdoutErr))
                               \o << <<"All components tested successfully">> >>
                  /\ pc' = "main_rp"
                  /\ UNCHANGED idx
    /\ stdoutErr' = "nil"
    /\ UNCHANGED <<tdRet, container, query, evalPos, log, testInvoked,
                   exitCode, cancelRequested>>
    /\ UNCHANGED storeVars

\* main lines 20-24
main_AfterRunPipeline ==
    /\ pc = "main_rp"
    /\ IF rpRet # Nil
       THEN /\ out' = Append(out, <<"Pipeline Error", rpRet>>)
            /\ exitCode' = 1
       ELSE /\ exitCode' = 0
            /\ UNCHANGED out
    /\ pc' = "exited"
    /\ UNCHANGED <<idx, openClients, tdRet, rpRet, container, query, evalPos,
                   stdoutErr, log, testInvoked, results, cancelRequested>>
    /\ UNCHANGED storeVars

InFlight == pc \in {"rp_build", "rp_test", "rp_stdout", "rp_blocked", "rp_test_ret"}

\* the environment asks for cancellation while builds and tests are in
\* flight; main installs no handler and passes context.Background() on
Cancel ==
    /\ InFlight
    /\ ~cancelRequested
    /\ cancelRequested' = TRUE
    /\ UNCHANGED <<pc, idx, openClients, tdRet, rpRet, container, query,
                   evalPos, stdoutErr, log, testInvoked, results, out, exitCode>>
    /\ UNCHANGED storeVars

Next ==
    \/ testDagger_Connect
    \/ testDagger_Stdout
    \/ main_AfterTestDagger
    \/ runPipeline_Connect
    \/ runPipeline_Build
    \/ test_Begin
    \/ Stdout_Step
    \/ test_Return
    \/ main_AfterRunPipeline
    \/ Cancel

Spec == Init /\ [][Next]_vars

(***************************************************************************)
(* Vocabulary of the properties, read off the engine's log.                *)
(***************************************************************************)
Range(seq) == {seq[i] : i \in 1..Len(seq)}

\* some build operation of c was executed and failed
BuildFailed(c) ==
    \E i \in 1..Len(log) :
        log[i][1] = c /\ log[i][2] \in BuildOps /\ log[i][3] = "failed"

\* the build operations of c executed successfully among the first n log entries
BuildOpsDone(c, n) ==
    Cardinality({i \in 1..n : log[i][1] = c /\ log[i][2] \in BuildOps /\ log[i][3] = "ok"})

\* the outcome of c's test command, "none" if the engine never ran it
TestOutcome(c) ==
    IF \E i \in 1..Len(log) : log[i][1] = c /\ log[i][2] = TestOp
    THEN LET i == CHOOSE i \in 1..Len(log) : log[i][1] = c /\ log[i][2] = TestOp
         IN log[i][3]
    ELSE "none"

\* c was built, and its test command exited 0 or, for the server, was still
\* alive and serving when the timeout ended it
ActuallyPassed(c) == TestOutcome(c) \in {"exit0", "timeout_serving"}

\* c was built or tested and did not pass
ActuallyFailed(c) ==
    BuildFailed(c) \/ TestOutcome(c) \in {"nonzero", "timeout_hung"}

HasResult(c) == \E i \in 1..Len(results) : results[i].name = c

ResultOf(c) == LET i == CHOOSE i \in 1..Len(results) : results[i].name = c IN results[i]

\* runPipeline connected to the backend and has returned, and main has exited
PipelineRan == pc = "exited" /\ tdRet = "nil" /\ rpRet # ConnectError

\* C1: the pipeline always completes with a full report: when it ran, every
\* component has been tested and has a result, also the components declared
\* after one that failed.
C1_FullReport ==
    PipelineRan => \A c \in Components : c \in Range(testInvoked) /\ HasResult(c)

\* C2: logical AND law: runPipeline returns nil (and prints the
\* all-components message) if and only if all four components passed.
C2_AndLaw ==
    PipelineRan =>
        /\ (rpRet = Nil) <=> (\A c \in Components : ActuallyPassed(c))
        /\ (rpRet = Nil) <=> (<<"All components tested successfully">> \in Range(out))

\* C3: only an unreachable backend is returned as an error by runPipeline; a
\* component's build or test failure never is.
C3_OnlyEnvironmentUnavailable ==
    rpRet \notin {NotReturned, Nil} => rpRet = ConnectError

\* C4: the server's smoke test passes after a timeout only when the server
\* was alive and serving; a hung or crashed server is a failed result.
C4_TimeoutAloneNeverPasses ==
    (HasResult("mcpServer") /\ ResultOf("mcpServer").err = "nil")
        => TestOutcome("mcpServer") \in {"exit0", "timeout_serving"}

\* C5: a component whose build fails never has its test phase invoked, and
\* its result appears in the outcome, failed, with the build error as detail.
C5_BuildFailureSkipsTest ==
    \A c \in Components :
        BuildFailed(c) =>
            /\ c \notin Range(testInvoked)
            /\ PipelineRan => (HasResult(c) /\ ResultOf(c).err = "build_error")

\* C6: the per-component results appear in declaration order: the i-th
\* result is the result of the i-th declared component.
C6_DeclarationOrder ==
    \A i \in 1..Len(results) : results[i].name = BuildOrder[i]

C6_Witness ==
    /\ Len(results) = NumComponents
    /\ \E i \in 1..Len(log) : Failed(log[i][3])

\* C7: build and test of one component are strictly sequential: when the
\* engine runs a component's test command, that component's build function
\* has returned its container and every build operation of it has completed.
C7_TestAfterBuild ==
    \A i \in 1..Len(log) :
        log[i][2] = TestOp =>
            /\ container[log[i][1]] = BuildFn(log[i][1])
            /\ BuildOpsDone(log[i][1], i - 1) = Len(BuildFn(log[i][1]))

C7_Witness ==
    \E i \in 1..Len(log) : log[i][1] = "mcpServer" /\ log[i][2] = TestOp

\* C8: a cancellation requested mid-run yields an outcome distinct from
\* success (exit 0) and from content failure (exit 1), and no report.
C8_CancelledOutcome ==
    (cancelRequested /\ pc = "exited") => exitCode \notin {0, 1}

\* C9: when dagger.Connect fails, in testDagger or in runPipeline, the run
\* aborts with a hard error: nothing is built or tested, and the process
\* exits with status 1.
C9_ConnectFailureAborts ==
    (tdRet = "connect_error" \/ rpRet = ConnectError) =>
        /\ pc \in {"main_td", "main_rp", "exited"}
        /\ \A c \in Components : container[c] = << >>
        /\ testInvoked = << >>
        /\ log = << >>
        /\ pc = "exited" => exitCode = 1

C9_Witness == rpRet = ConnectError /\ pc = "exited"

\* C10: the exit code is 0 on full success and non-zero otherwise; exit code
\* 0 is never returned by a run in which some component failed.
C10_ExitCode ==
    pc = "exited" =>
        /\ (\A c \in Components : ActuallyPassed(c)) => exitCode = 0
        /\ exitCode = 0 => \A c \in Components : ~ActuallyFailed(c)

\* C11: every blocking build or test operation has a timeout, so the run
\* always terminates: an operation that never ends becomes a failed result
\* and main is never left blocked in Stdout.
C11_NoIndefiniteBlock == pc # "rp_blocked"

\* the error the engine reported for the operation of c that failed
FailureDetail(c) ==
    LET i == CHOOSE i \in 1..Len(log) : log[i][1] = c /\ Failed(log[i][3])
    IN ErrOf(log[i][2], log[i][3])

\* C12: whenever a component fails, the outcome given to the caller names
\* that component and carries its diagnostic: main prints the error
\* "<component> test failed: <the error of the engine>", for every one of
\* the four components.
C12_FailureNamedWithDiagnostic ==
    pc = "exited" =>
        \A c \in Components :
            ActuallyFailed(c) =>
                <<"Pipeline Error", TestFailedError(c, FailureDetail(c))>> \in Range(out)

(***************************************************************************)
(* The builds in any order.  runPipeline announces the four builds as      *)
(* parallel (line 55); this specification lets the four build function     *)
(* calls of lines 56-59 happen in every order, the rest of main unchanged. *)
(***************************************************************************)
runPipeline_BuildAny ==
    /\ pc = "rp_build"
    /\ \E c \in Components :
         /\ container[c] = << >>
         /\ container' = [container EXCEPT ![c] = BuildFn(c)]
         /\ out' = Append(out, <<"Building", c>>)
         /\ IF \A d \in Components \ {c} : container[d] # << >>
            THEN pc' = "rp_test"
            ELSE UNCHANGED pc
    /\ idx' = 1
    /\ UNCHANGED <<openClients, tdRet, rpRet, query, evalPos, stdoutErr, log,
                   testInvoked, results, exitCode, cancelRequested>>
    /\ UNCHANGED storeVars

NextAnyOrder ==
    \/ testDagger_Connect
    \/ testDagger_Stdout
    \/ main_AfterTestDagger
    \/ runPipeline_Connect
    \/ runPipeline_BuildAny
    \/ test_Begin
    \/ Stdout_Step
    \/ test_Return
    \/ main_AfterRunPipeline
    \/ Cancel

SpecAnyOrder == Init /\ [][NextAnyOrder]_vars

\* C14: the builds are independent: in whatever order the four build
\* functions run, each component's artifact is the pipeline of its own build
\* function and nothing else, so the tests start from the same four
\* artifacts under every ordering.
C14_BuildsIndependent ==
    /\ \A c \in Components :
          container[c] # << >> =>
              container[c] = CASE c = "microAgent" -> buildMicroAgentContainer
                               [] c = "mcpServer" -> buildMCPServerContainer
                               [] c = "knowledgeGraph" -> buildKnowledgeGraphContainer
                               [] c = "sessionMemory" -> buildSessionMemoryContainer
    /\ pc \in {"rp_test", "rp_stdout", "rp_blocked", "rp_test_ret"} =>
          \A c \in Components : container[c] # << >>

\* the builds ran in the reverse of the declaration order and the run ended
C14_Witness ==
    /\ pc = "exited"
    /\ \E i, j, k, l \in 1..Len(out) :
          /\ i < j /\ j < k /\ k < l
          /\ out[i] = <<"Building", "sessionMemory">>
          /\ out[j] = <<"Building", "knowledgeGraph">>
          /\ out[k] = <<"Building", "mcpServer">>
          /\ out[l] = <<"Building", "microAgent">>

\* C15: testMCPServer returns nil for every outcome of the server command
\* and of the server's build, so runPipeline never returns "MCP server test
\* failed" and the MCP server never makes the pipeline fail.
C15_MCPServerNeverFails ==
    /\ \A i \in 1..Len(results) :
          results[i].name = "mcpServer" => results[i].err = "nil"
    /\ rpRet.kind = "test_failed" => rpRet.comp # "mcpServer"
    /\ (pc = "rp_test_ret" /\ TestOrder[idx] = "mcpServer") =>
          TestFn("mcpServer", stdoutErr) = "nil"

\* the server's build failed, its test returned, and the process exited 0
C15_Witness ==
    /\ BuildFailed("mcpServer")
    /\ HasResult("mcpServer")
    /\ pc = "exited"
    /\ exitCode = 0

\* C16: client lifecycle in main: at most one Dagger client is open at any
\* time; testDagger's client is closed before runPipeline opens its own;
\* runPipeline is entered only after testDagger returned nil; and on every
\* path each opened client is closed before the process exits.
C16_ClientLifecycle ==
    /\ Cardinality(openClients) <= 1
    /\ "runPipeline" \in openClients => "testDagger" \notin openClients
    /\ pc \in {"rp_connect", "rp_build", "rp_test", "rp_stdout", "rp_blocked",
                "rp_test_ret", "main_rp"} =>
          (tdRet = "nil" /\ "testDagger" \notin openClients)
    /\ rpRet # NotReturned => tdRet = "nil"
    /\ pc \in {"main_td", "main_rp", "exited"} => openClients = {}

\* both clients were opened, a test failed, and the process exited with 1
C16_Witness ==
    /\ pc = "exited"
    /\ exitCode = 1
    /\ rpRet.kind = "test_failed"

(***************************************************************************)
(* The demo GraphQL context store (schema.js: contexts, nextId and the     *)
(* Mutation resolvers).  A context is kept with its id, content and type;  *)
(* relevance and the two timestamps are written but never read by the      *)
(* resolvers and are left out.  A JavaScript string of digits is the       *)
(* sequence of its digits.                                                 *)
(***************************************************************************)
MaxAdds == 3

\* String(n) for a non-negative integer: its decimal digits
RECURSIVE String(_)
String(n) == IF n < 10 THEN <<n>> ELSE Append(String(n \div 10), n % 10)

\* the ids a caller may pass: the decimal strings around the ids in use, and
\* "01", which is not the string of any number
IdInputs == {String(n) : n \in 0..(MaxAdds + 1)} \cup {<<0, 1>>}

\* content arguments; updateContext's content is optional
Contents == {"", "a", "b"}
NullContent == "<null>"
ContextTypes == {"TEXT", "CODE"}

\* JavaScript truthiness of a content argument
Truthy(content) == content \notin {"", NullContent}

\* contexts.findIndex(c => c.id === id), 1-based, 0 when there is none
FindIndex(seq, id) ==
    IF \E i \in 1..Len(seq) : seq[i].id = id
    THEN CHOOSE i \in 1..Len(seq) :
            /\ seq[i].id = id
            /\ \A j \in 1..(i - 1) : seq[j].id # id
    ELSE 0

\* a mutation of Splice: splice(index) without a count removes the rest too
SpliceToEnd(seq, i) == SubSeq(seq, 1, i - 1)

\* contexts.splice(index, 1)
Splice(seq, i) == SubSeq(seq, 1, i - 1) \o SubSeq(seq, i + 1, Len(seq))

addContext ==
    /\ nextId <= MaxAdds
    /\ \E content \in Contents, type \in ContextTypes :
         LET context == [id |-> String(nextId), content |-> content, type |-> type]
         IN /\ contexts' = Append(contexts, context)
            /\ ret' = [op |-> "addContext", id |-> context.id, result |-> "context"]
    /\ nextId' = nextId + 1
    /\ UNCHANGED pipelineVars

updateContext ==
    /\ \E id \in IdInputs, content \in Contents \cup {NullContent} :
         LET i == FindIndex(contexts, id)
         IN /\ contexts' = IF i > 0 /\ Truthy(content)
                            THEN [contexts EXCEPT ![i].content = content]
                            ELSE contexts
            /\ ret' = [op |-> "updateContext", id |-> id,
                       result |-> IF i > 0 THEN "context" ELSE "undefined"]
    /\ UNCHANGED nextId
    /\ UNCHANGED pipelineVars

deleteContext ==
    /\ \E id \in IdInputs :
         LET index == FindIndex(contexts, id)
         IN IF index > 0
            THEN /\ contexts' = Splice(contexts, index)
                 /\ ret' = [op |-> "deleteContext", id |-> id, result |-> "true"]
            ELSE /\ ret' = [op |-> "deleteContext", id |-> id, result |-> "false"]
                 /\ UNCHANGED contexts
    /\ UNCHANGED nextId
    /\ UNCHANGED pipelineVars

StoreNext ==
    \/ addContext
    \/ updateContext
    \/ deleteContext

SpecStore == Init /\ [][StoreNext]_vars

StoredIds(seq) == {seq[i].id : i \in 1..Len(seq)}

\* the stored ids are pairwise distinct and were all issued: each is the
\* string of a number below nextId
StoreInv ==
    /\ \A i, j \in 1..Len(contexts) : i # j => contexts[i].id # contexts[j].id
    /\ \A i \in 1..Len(contexts) : \E n \in 1..(nextId - 1) : contexts[i].id = String(n)

\* what one resolver call may do to the store
StoreStep ==
    /\ nextId' # nextId => (ret'.op = "addContext" /\ nextId' = nextId + 1)
    /\ ret'.op = "addContext" =>
          /\ nextId' = nextId + 1
          /\ Len(contexts') = Len(contexts) + 1
          /\ SubSeq(contexts', 1, Len(contexts)) = contexts
          /\ contexts'[Len(contexts')].id = ret'.id
          /\ ret'.id \notin StoredIds(contexts)
          /\ \A n \in 1..(nextId - 1) : ret'.id # String(n)
    /\ ret'.op = "deleteContext" =>
          /\ ret'.result = "true" <=> ret'.id \in StoredIds(contexts)
          /\ contexts' = SelectSeq(contexts, LAMBDA c : c.id # ret'.id)
          /\ ret'.result = "true" => Len(contexts') = Len(contexts) - 1
    /\ ret'.op = "updateContext" =>
          /\ Len(contexts') = Len(contexts)
          /\ \A i \in 1..Len(contexts) : contexts'[i].id = contexts[i].id

\* C17: after any sequence of addContext, updateContext and deleteContext the
\* stored ids are pairwise distinct and an id is never reused (nextId only
\* grows, by one per addContext); deleteContext(id) returns true exactly when
\* id was stored, removes exactly that context and leaves the others as they
\* were; updateContext changes neither an id nor the number of contexts.
C17_ContextStore == []StoreInv /\ [][StoreStep]_storeVars

\* a context was added after an earlier one had been deleted
C17_Witness ==
    /\ ret.op = "addContext"
    /\ Len(contexts) >= 1
    /\ Len(contexts) < nextId - 1

====
